---- MODULE Spec2Model ----
(***************************************************************************)
(* State-machine model of the blog application in src/main.py: the three   *)
(* tables (users, blog_posts, comments), the per-client login session and  *)
(* the route handlers register, login, logout, show_post, add_new_post,    *)
(* edit_post, delete_post and get_all_users.                               *)
(*                                                                         *)
(* Every handler is one atomic step (one request, one transaction), except *)
(* register, which is split at the point where its duplicate-email lookup  *)
(* has returned and its INSERT has not yet been issued, so that two        *)
(* registrations can overlap.                                              *)
(***************************************************************************)
EXTENDS Integers, FiniteSets, Sequences, TLC

\* ------------------------------------------------------------------ bounds
NumClients == 2
NumEmails == 2
NumNames == 2
NumPasswords == 2
NumSalts == 1
NumForms == 2
NumTexts == 1
MaxUserId == 2
MaxPostId == 2
MaxCommentId == 1
MaxDay == 1

Clients == 1..NumClients
Emails == 1..NumEmails
Names == 1..NumNames
Passwords == 1..NumPasswords
Salts == 1..NumSalts
Forms == 1..NumForms
Texts == 1..NumTexts
PostIds == 1..MaxPostId

VARIABLES users, userSeq, blog_posts, postSeq, comments, commentSeq,
          session, pending, today, response

stores == <<users, userSeq, blog_posts, postSeq, comments, commentSeq>>
vars == <<users, userSeq, blog_posts, postSeq, comments, commentSeq,
          session, pending, today, response>>

\* ------------------------------------------------------- session / identity
\* The session cookie of a client that is not logged in carries no "_user_id".
NoUserId == 0
\* No register request of the client is between its lookup and its INSERT.
NoRequest == [email |-> 0, password |-> 0, name |-> 0]
\* Value of a nullable foreign key that has been blanked out.
NULL == 0

AnonymousUserMixin == [is_authenticated |-> FALSE]

\* db.get_or_404(User, user_id): the row with that primary key.
load_user(user_id) ==
    CHOOSE u \in users : u.id = user_id

\* flask_login.current_user for the request of client c: the user loaded from
\* the session's id, tagged authenticated, or the anonymous user.
current_user(c) ==
    IF session[c] = NoUserId \/ ~(\E u \in users : u.id = session[c])
    THEN AnonymousUserMixin
    ELSE [is_authenticated |-> TRUE, id |-> load_user(session[c]).id,
          name |-> load_user(session[c]).name]

\* A user class whose is_authenticated is never true.
is_authenticated_never(c) ==
    FALSE

\* current_user.is_authenticated: True for a loaded user (UserMixin), False
\* for the anonymous user.
is_authenticated(c) ==
    current_user(c).is_authenticated

\* The logged-in user kept in one process-wide variable instead of in the
\* session of the requesting client.
login_user_global(c, user) ==
    [x \in Clients |-> user.id]

\* flask_login.login_user(user) as called by register and login: the id of
\* the user is written into the session of the requesting client only.
login_user(c, user) ==
    [session EXCEPT ![c] = user.id]

\* flask_login.logout_user(): the id is removed from the client's session.
logout_user(c) ==
    [session EXCEPT ![c] = NoUserId]

\* ------------------------------------------------------------ passwords
\* The key derivation, as an injective function of (salt, plaintext).
pbkdf2_sha256(salt, plaintext) ==
    salt * (NumPasswords + 1) + plaintext

\* werkzeug generate_password_hash(password, method, salt_length): the stored
\* string "method$salt$digest".
generate_password_hash(plaintext, salt) ==
    [method |-> "pbkdf2:sha256", salt |-> salt,
     digest |-> pbkdf2_sha256(salt, plaintext)]

\* A check that compares the method prefix only and never the digest.
check_password_hash_method_only(pwhash, plaintext) ==
    pwhash.method = "pbkdf2:sha256"

\* werkzeug check_password_hash(pwhash, password): re-hash with stored salt.
check_password_hash(pwhash, plaintext) ==
    pbkdf2_sha256(pwhash.salt, plaintext) = pwhash.digest

\* ------------------------------------------------------------ responses
\* What the client receives: the view that answered, the HTTP status, the
\* message flashed for the next page, the target of a redirect and, for
\* /all-users, the JSON body.
Response(endpoint, status, flash, location) ==
    [endpoint |-> endpoint, status |-> status, flash |-> flash,
     location |-> location, json |-> <<>>]

\* The messages the handlers flash.
DuplicateEmail == "You already have an account with this email, please login."
NotFound == "That email does not exist, please try again."
WrongPassword == "Password incorrect, please try again."
AlreadyAuthenticated == "You are already logged in!"

render_template(endpoint) ==
    Response(endpoint, 200, "", "")

redirect(endpoint, flash, location) ==
    Response(endpoint, 302, flash, location)

abort(endpoint, status) ==
    Response(endpoint, status, "", "")

\* ------------------------------------------------------------------ Init
Init ==
    /\ users = {}
    /\ userSeq = 1
    /\ blog_posts = {}
    /\ postSeq = 1
    /\ comments = {}
    /\ commentSeq = 1
    /\ session = [c \in Clients |-> NoUserId]
    /\ pending = [c \in Clients |-> NoRequest]
    /\ today = 0
    /\ response = Response("", 0, "", "")

\* ---------------------------------------------------------------- register
\* select(User).where(User.email == email).scalar(): a row with that email.
user_by_email(email) ==
    {u \in users : u.email = email}

\* users.email declared without unique=True: the store accepts every INSERT.
email_unique_unchecked(email) ==
    TRUE

\* The UNIQUE constraint of users.email (unique=True), checked by the store
\* when the INSERT is committed.
email_unique(email) ==
    ~(\E u \in users : u.email = email)

\* Number of register requests whose INSERT is still to come.
in_flight == Cardinality({c \in Clients : pending[c] # NoRequest})

\* GET /register, or a POST whose form does not validate: the page.
register_page(c) ==
    /\ pending[c] = NoRequest
    /\ response' = render_template("register")
    /\ UNCHANGED <<stores, session, pending, today>>

\* POST /register up to the duplicate-email lookup and its branch.
register_lookup(c, email, password, name) ==
    /\ pending[c] = NoRequest
    /\ IF user_by_email(email) # {}
       THEN /\ response' = redirect("register", DuplicateEmail, "login")
            /\ UNCHANGED <<stores, session, pending, today>>
       ELSE /\ userSeq + in_flight <= MaxUserId
            /\ pending' = [pending EXCEPT ![c] =
                   [email |-> email, password |-> password, name |-> name]]
            /\ UNCHANGED <<stores, session, today, response>>

\* POST /register from generate_password_hash to the redirect: the INSERT,
\* its commit and login_user.  A commit that violates the UNIQUE constraint
\* raises IntegrityError, which no handler catches: status 500, nothing
\* written; the id drawn for the row may or may not be used up.
register_insert(c, salt) ==
    /\ pending[c] # NoRequest
    /\ pending' = [pending EXCEPT ![c] = NoRequest]
    /\ IF email_unique(pending[c].email)
       THEN LET new_user == [id |-> userSeq,
                             email |-> pending[c].email,
                             password |-> generate_password_hash(pending[c].password, salt),
                             name |-> pending[c].name]
            IN /\ users' = users \cup {new_user}
               /\ userSeq' = userSeq + 1
               /\ session' = login_user(c, new_user)
               /\ response' = redirect("register", "", "get_all_posts")
               /\ UNCHANGED <<blog_posts, postSeq, comments, commentSeq, today>>
       ELSE /\ response' = abort("register", 500)
            /\ userSeq' \in {userSeq, userSeq + 1}
            /\ UNCHANGED <<users, blog_posts, postSeq, comments, commentSeq,
                           session, today>>

\* ------------------------------------------------------------------- login
\* GET /login, or a POST whose form does not validate: the page.
login_page(c) ==
    /\ pending[c] = NoRequest
    /\ response' = render_template("login")
    /\ UNCHANGED <<stores, session, pending, today>>

\* POST /login with a valid form.
login(c, email, password) ==
    /\ pending[c] = NoRequest
    /\ UNCHANGED <<stores, pending, today>>
    /\ IF user_by_email(email) = {}
       THEN /\ response' = redirect("login", NotFound, "login")
            /\ UNCHANGED session
       ELSE LET user == CHOOSE u \in user_by_email(email) : TRUE
            IN IF ~check_password_hash(user.password, password)
               THEN /\ response' = redirect("login", WrongPassword, "login")
                    /\ UNCHANGED session
               ELSE IF is_authenticated(c)
               THEN /\ response' = redirect("login", AlreadyAuthenticated, "login")
                    /\ UNCHANGED session
               ELSE /\ session' = login_user(c, user)
                    /\ response' = redirect("login", "", "get_all_posts")

\* ------------------------------------------------------------------ logout
\* GET /logout.  For an anonymous caller the view falls off its end and
\* returns None, which Flask rejects with a TypeError: status 500.
logout(c) ==
    /\ pending[c] = NoRequest
    /\ UNCHANGED <<stores, pending, today>>
    /\ IF is_authenticated(c)
       THEN /\ session' = logout_user(c)
            /\ response' = redirect("logout", "", "get_all_posts")
       ELSE /\ response' = abort("logout", 500)
            /\ UNCHANGED session

\* --------------------------------------------------------------- all-users
\* GET /all-users: user_dict['users'][user.name] = {id, name, email} for each
\* row in the order the SELECT returns them (no ORDER BY): one key per name,
\* holding the entry of the row with that name that was assigned last.
get_all_users(c) ==
    /\ pending[c] = NoRequest
    /\ UNCHANGED <<stores, session, pending, today>>
    /\ \E user_dict \in [{u.name : u \in users} -> users] :
          /\ \A n \in DOMAIN user_dict : user_dict[n].name = n
          /\ response' = [Response("get_all_users", 200, "", "") EXCEPT !.json =
                [n \in DOMAIN user_dict |->
                    [id |-> user_dict[n].id, name |-> user_dict[n].name,
                     email |-> user_dict[n].email]]]

\* -------------------------------------------------------------- admin gate
\* flask_login.login_required: an anonymous caller is turned away by
\* LoginManager.unauthorized(), which aborts with 401 as no login_view is set.
login_required(c) ==
    is_authenticated(c)

\* admin_only: login_required first, then the wrapper's own test
\* "not is_authenticated and id != 1".  The result is the status the gate
\* aborts with, or 200 when the wrapped view is called.
admin_only(c) ==
    IF ~login_required(c) THEN 401
    ELSE IF ~is_authenticated(c) /\ current_user(c).id # 1 THEN 403
    ELSE 200

\* ------------------------------------------------------------------- posts
\* The fields a valid CreatePostForm submits; form k carries four values
\* that differ from each other and from those of every other form.
CreatePostForm(k) ==
    [title |-> <<"title", k>>, subtitle |-> <<"subtitle", k>>,
     body |-> <<"body", k>>, img_url |-> <<"img_url", k>>]

\* date.today().strftime("%B %d, %Y") for the day `day` days after
\* June 30, 2024: month name, zero-padded day of month, year.
strftime(day) ==
    LET dom == IF day = 0 THEN 30 ELSE day
        month == IF day = 0 THEN "June" ELSE "July"
    IN <<month, <<dom \div 10, dom % 10>>, 2024>>

\* The UNIQUE constraint of blog_posts.title over the rows other than `id`.
title_unique(title, id) ==
    ~(\E p \in blog_posts : p.id # id /\ p.title = title)

\* db.get_or_404(BlogPost, post_id)
get_post(post_id) ==
    CHOOSE p \in blog_posts : p.id = post_id

\* POST /new-post with a valid form k (page = TRUE: GET or invalid form).
add_new_post(c, k, page) ==
    /\ pending[c] = NoRequest
    /\ UNCHANGED <<users, userSeq, comments, commentSeq, session, pending, today>>
    /\ IF admin_only(c) # 200
       THEN /\ response' = abort("add_new_post", admin_only(c))
            /\ UNCHANGED <<blog_posts, postSeq>>
       ELSE IF page
       THEN /\ response' = render_template("add_new_post")
            /\ UNCHANGED <<blog_posts, postSeq>>
       ELSE /\ postSeq <= MaxPostId
            /\ LET form == CreatePostForm(k)
                   new_post == [id |-> postSeq,
                                title |-> form.title,
                                subtitle |-> form.subtitle,
                                body |-> form.body,
                                img_url |-> form.img_url,
                                author_id |-> current_user(c).id,
                                date |-> strftime(today)]
               IN IF title_unique(form.title, postSeq)
                  THEN /\ blog_posts' = blog_posts \cup {new_post}
                       /\ postSeq' = postSeq + 1
                       /\ response' = redirect("add_new_post", "", "get_all_posts")
                  ELSE /\ response' = abort("add_new_post", 500)
                       /\ postSeq' \in {postSeq, postSeq + 1}
                       /\ UNCHANGED blog_posts

\* An edit that also stamps the current date, as add_new_post does.
edit_fields_restamp(post, form, editor) ==
    [post EXCEPT !.title = form.title,
                 !.subtitle = form.subtitle,
                 !.img_url = form.img_url,
                 !.author_id = editor.id,
                 !.body = form.body,
                 !.date = strftime(today)]

\* The assignments of edit_post to the loaded row.
edit_fields(post, form, editor) ==
    [post EXCEPT !.title = form.title,
                 !.subtitle = form.subtitle,
                 !.img_url = form.img_url,
                 !.author_id = editor.id,
                 !.body = form.body]

\* POST /edit-post/<post_id> with a valid form k (page = TRUE: GET or
\* invalid form).
edit_post(c, post_id, k, page) ==
    /\ pending[c] = NoRequest
    /\ UNCHANGED <<users, userSeq, postSeq, comments, commentSeq, session,
                   pending, today>>
    /\ IF admin_only(c) # 200
       THEN /\ response' = abort("edit_post", admin_only(c))
            /\ UNCHANGED blog_posts
       ELSE IF ~(\E p \in blog_posts : p.id = post_id)
       THEN /\ response' = abort("edit_post", 404)
            /\ UNCHANGED blog_posts
       ELSE IF page
       THEN /\ response' = render_template("edit_post")
            /\ UNCHANGED blog_posts
       ELSE LET post == get_post(post_id)
                form == CreatePostForm(k)
            IN IF title_unique(form.title, post_id)
               THEN /\ blog_posts' = (blog_posts \ {post})
                                       \cup {edit_fields(post, form, current_user(c))}
                    /\ response' = redirect("edit_post", "", "show_post")
               ELSE /\ response' = abort("edit_post", 500)
                    /\ UNCHANGED blog_posts

\* comments.post_id declared Mapped[Optional[int]]: a nullable column.
post_id_nullable_optional == TRUE

\* comments.post_id is declared Mapped[str] without Optional and without
\* nullable=True, so create_all() makes the column NOT NULL.
post_id_nullable == FALSE

\* GET /delete/<post_id>.  BlogPost.comments has no delete cascade, so the
\* flush of session.delete(post) first blanks out post_id in the post's
\* comments and then deletes the post; on a NOT NULL column the UPDATE
\* raises IntegrityError, the transaction is rolled back and the request
\* ends with status 500.
delete_post(c, post_id) ==
    /\ pending[c] = NoRequest
    /\ UNCHANGED <<users, userSeq, postSeq, commentSeq, session, pending, today>>
    /\ IF admin_only(c) # 200
       THEN /\ response' = abort("delete_post", admin_only(c))
            /\ UNCHANGED <<blog_posts, comments>>
       ELSE IF ~(\E p \in blog_posts : p.id = post_id)
       THEN /\ response' = abort("delete_post", 404)
            /\ UNCHANGED <<blog_posts, comments>>
       ELSE LET post_to_delete == get_post(post_id)
                children == {cm \in comments : cm.post_id = post_id}
            IN IF children # {} /\ ~post_id_nullable
               THEN /\ response' = abort("delete_post", 500)
                    /\ UNCHANGED <<blog_posts, comments>>
               ELSE /\ comments' = (comments \ children) \cup
                           {[cm EXCEPT !.post_id = NULL] : cm \in children}
                    /\ blog_posts' = blog_posts \ {post_to_delete}
                    /\ response' = redirect("delete_post", "", "get_all_posts")

\* A comment attributed to the author of the post instead of the caller.
Comment_by_post_author(id, text, comment_author, parent_post) ==
    [id |-> id, text |-> text, author_id |-> parent_post.author_id,
     post_id |-> parent_post.id]

\* ---------------------------------------------------------------- comments
\* Comment(text=..., comment_author=current_user, parent_post=requested_post)
Comment(id, text, comment_author, parent_post) ==
    [id |-> id, text |-> text, author_id |-> comment_author.id,
     post_id |-> parent_post.id]

\* /post/<post_id>: GET (submit = FALSE) or POST of a valid CommentForm.
\* An anonymous caller's POST assigns the anonymous user object, which is no
\* mapped row, to comment_author: the constructor raises, status 500.
show_post(c, post_id, submit, text) ==
    /\ pending[c] = NoRequest
    /\ UNCHANGED <<users, userSeq, blog_posts, postSeq, session, pending, today>>
    /\ IF ~(\E p \in blog_posts : p.id = post_id)
       THEN /\ response' = abort("show_post", 404)
            /\ UNCHANGED <<comments, commentSeq>>
       ELSE IF ~submit
       THEN /\ response' = render_template("show_post")
            /\ UNCHANGED <<comments, commentSeq>>
       ELSE IF ~is_authenticated(c)
       THEN /\ response' = abort("show_post", 500)
            /\ UNCHANGED <<comments, commentSeq>>
       ELSE /\ commentSeq <= MaxCommentId
            /\ comments' = comments \cup
                  {Comment(commentSeq, text, current_user(c), get_post(post_id))}
            /\ commentSeq' = commentSeq + 1
            /\ response' = render_template("show_post")

\* ------------------------------------------------------------------- clock
\* The calendar date returned by date.today() moves on.
NextDay ==
    /\ today < MaxDay
    /\ today' = today + 1
    /\ UNCHANGED <<stores, session, pending, response>>

\* -------------------------------------------------------------------- Next
\* The requests to the account handlers, with register forms drawn from the
\* set `forms` of [email, password, name] records.
AccountRequests(forms) ==
    \/ \E c \in Clients : register_page(c)
    \/ \E c \in Clients, f \in forms :
          register_lookup(c, f.email, f.password, f.name)
    \/ \E c \in Clients, s \in Salts : register_insert(c, s)
    \/ \E c \in Clients : login_page(c)
    \/ \E c \in Clients, e \in Emails, p \in Passwords : login(c, e, p)
    \/ \E c \in Clients : logout(c)
    \/ \E c \in Clients : get_all_users(c)

\* The requests to the post and comment handlers.
ContentRequests ==
    \/ \E c \in Clients, k \in Forms, page \in BOOLEAN : add_new_post(c, k, page)
    \/ \E c \in Clients, id \in PostIds, k \in Forms, page \in BOOLEAN :
          edit_post(c, id, k, page)
    \/ \E c \in Clients, id \in PostIds : delete_post(c, id)
    \/ \E c \in Clients, id \in PostIds, submit \in BOOLEAN, t \in Texts :
          show_post(c, id, submit, t)

\* Every register form over the emails, passwords and names.
AllRegisterForms ==
    [email : Emails, password : Passwords, name : Names]

\* The register form of the owner of email e: their password and name.
RegisterForm(e) ==
    [email |-> e, password |-> ((e - 1) % NumPasswords) + 1,
     name |-> ((e - 1) % NumNames) + 1]

\* One register form per email.
OwnRegisterForms ==
    {RegisterForm(e) : e \in Emails}

\* The whole application; each email is registered with its owner's form.
Next ==
    \/ AccountRequests(OwnRegisterForms)
    \/ ContentRequests
    \/ NextDay

Spec == Init /\ [][Next]_vars

\* The account handlers alone, with every register form.
NextAccounts ==
    AccountRequests(AllRegisterForms)

SpecAccounts == Init /\ [][NextAccounts]_vars

\* ------------------------------------------------------------------ claims
\* A request of client c to one of the admin-only views.
AdminRequest(c) ==
    \/ \E k \in Forms, page \in BOOLEAN : add_new_post(c, k, page)
    \/ \E id \in PostIds, k \in Forms, page \in BOOLEAN : edit_post(c, id, k, page)
    \/ \E id \in PostIds : delete_post(c, id)

\* C1: a new-post, edit-post or delete request of a caller who is anonymous
\* or logged in as a user other than the bootstrap admin (id 1) is answered
\* with status 403 and leaves the posts as they were.
C1_AdminOnly ==
    [][\A c \in Clients :
          (response'.endpoint \in {"add_new_post", "edit_post", "delete_post"}
               /\ AdminRequest(c)
               /\ session[c] # 1)
             => (response'.status = 403 /\ blog_posts' = blog_posts)]_vars

\* No two rows of users carry the same email.
OneUserPerEmail ==
    \A u1 \in users, u2 \in users : u1.email = u2.email => u1 = u2

\* C2: under every interleaving of register requests the users table holds
\* at most one row per email; a register request whose lookup finds a row
\* with the submitted email is answered with the DuplicateEmail notice,
\* writes nothing and leaves exactly one row for that email; and a request
\* whose INSERT meets a row that was committed after its lookup writes
\* nothing either.
C2_RegisterUniqueEmail ==
    /\ []OneUserPerEmail
    /\ [][\A c \in Clients, f \in AllRegisterForms :
             (response'.endpoint = "register"
                  /\ (\E u \in users : u.email = f.email)
                  /\ register_lookup(c, f.email, f.password, f.name))
                => /\ response'.flash = DuplicateEmail
                   /\ response'.status = 302
                   /\ users' = users
                   /\ session' = session
                   /\ pending' = pending
                   /\ Cardinality({u \in users' : u.email = f.email}) = 1]_vars
    /\ [][\A c \in Clients, s \in Salts :
             (response'.endpoint = "register"
                  /\ (\E u \in users : u.email = pending[c].email)
                  /\ register_insert(c, s))
                => (users' = users /\ session' = session)]_vars

\* C2 witness: a row for an email was committed while another request for
\* that email was past its lookup, and a later request for the same email
\* has been answered with the DuplicateEmail notice.
C2_Witness ==
    /\ response.endpoint = "register"
    /\ response.flash = DuplicateEmail
    /\ \E c \in Clients :
          /\ pending[c] # NoRequest
          /\ Cardinality({u \in users : u.email = pending[c].email}) = 1

\* C3: a login request with the email of an existing user and a password
\* other than the one that user registered with is answered with the
\* WrongPassword notice, and leaves every session and every table unchanged.
C3_WrongPassword ==
    [][\A c \in Clients, e \in Emails, p \in Passwords :
          (response'.endpoint = "login"
               /\ (\E u \in users : u.email = e)
               /\ p # RegisterForm(e).password
               /\ login(c, e, p))
             => /\ response'.flash = WrongPassword
                /\ response'.status = 302
                /\ session' = session
                /\ UNCHANGED stores]_vars

\* C3 witness: a login with a wrong password has been answered while the
\* tables hold a user and a post.
C3_Witness ==
    /\ response.endpoint = "login"
    /\ response.flash = WrongPassword
    /\ users # {}
    /\ blog_posts # {}
    /\ \E c \in Clients : session[c] = NoUserId

\* C4: a login request of an anonymous caller with the email and the
\* password of a registered user makes that user the caller's current user;
\* and the current user of an authenticated caller is the same after every
\* step that is neither that caller's logout nor the completion of that
\* caller's registration.
C4_SessionPersists ==
    /\ [][\A c \in Clients, e \in Emails :
             (response'.endpoint = "login"
                  /\ session[c] = NoUserId
                  /\ (\E u \in users : u.email = e)
                  /\ login(c, e, RegisterForm(e).password))
                => \E u \in users :
                      /\ u.email = e
                      /\ session'[c] = u.id
                      /\ current_user(c)' =
                            [is_authenticated |-> TRUE, id |-> u.id,
                             name |-> u.name]]_vars
    /\ [][\A c \in Clients :
             (session[c] # NoUserId
                  /\ ~(response'.endpoint = "logout" /\ logout(c))
                  /\ ~(response'.endpoint = "register"
                         /\ \E s \in Salts : register_insert(c, s)))
                => (session'[c] = session[c]
                      /\ current_user(c)' = current_user(c))]_vars

\* C4 witness: a login has succeeded, and both clients hold sessions of
\* different users.
C4_Witness ==
    /\ response.endpoint = "login"
    /\ response.status = 302
    /\ response.flash = ""
    /\ \E c1 \in Clients, c2 \in Clients :
          /\ session[c1] # NoUserId
          /\ session[c2] # NoUserId
          /\ session[c1] # session[c2]

\* C5: a login request of a caller who is already authenticated, whatever
\* the submitted credentials, leaves every session and every table unchanged
\* and is answered with a redirect that carries a flash notice.
C5_LoginWhileAuthenticated ==
    [][\A c \in Clients, e \in Emails, p \in Passwords :
          (response'.endpoint = "login"
               /\ session[c] # NoUserId
               /\ login(c, e, p))
             => /\ session' = session
                /\ UNCHANGED stores
                /\ response'.status = 302
                /\ response'.flash # ""]_vars

\* C5 witness: an authenticated caller's login has been answered with the
\* AlreadyAuthenticated notice while a second user exists.
C5_Witness ==
    /\ response.endpoint = "login"
    /\ response.flash = AlreadyAuthenticated
    /\ Cardinality(users) >= 2
    /\ \E c \in Clients : session[c] # NoUserId

\* C6: a logout request of an anonymous caller leaves every session and
\* every table unchanged and is answered with a page or a redirect.
C6_LogoutAnonymous ==
    [][\A c \in Clients :
          (response'.endpoint = "logout"
               /\ session[c] = NoUserId
               /\ logout(c))
             => /\ session' = session
                /\ UNCHANGED stores
                /\ response'.status \in {200, 302}]_vars

C8_ReferentialIntegrity ==
    /\ \A cm \in comments :
          /\ Cardinality({u \in users : u.id = cm.author_id}) = 1
          /\ Cardinality({p \in blog_posts : p.id = cm.post_id}) = 1
    /\ \A p \in blog_posts :
          Cardinality({u \in users : u.id = p.author_id}) = 1

\* C8 witness: a delete request has removed a post while a comment is
\* stored.
C8_Witness ==
    /\ response.endpoint = "delete_post"
    /\ response.status = 302
    /\ comments # {}
    /\ Cardinality(blog_posts) < postSeq - 1

\* C9: the body of the /all-users response has, for every row of users, an
\* entry with that row's id, name and email.
C9_AllUsersListed ==
    [][\A c \in Clients :
          (response'.endpoint = "get_all_users" /\ get_all_users(c))
             => \A u \in users :
                   \E n \in DOMAIN response'.json :
                      response'.json[n] =
                         [id |-> u.id, name |-> u.name, email |-> u.email]]_vars

\* C10: an edit-post request that is answered with the redirect to the
\* post sets the post's title, subtitle, body and image to the submitted
\* values and its author to the caller, and leaves unchanged the post's id
\* and date, all comments, every other post and all users.
C10_EditPost ==
    [][\A c \in Clients, id \in PostIds, k \in Forms :
          (response'.endpoint = "edit_post"
               /\ response'.status = 302
               /\ edit_post(c, id, k, FALSE))
             => \E old \in blog_posts, new \in blog_posts' :
                   /\ old.id = id
                   /\ new.id = id
                   /\ new.title = CreatePostForm(k).title
                   /\ new.subtitle = CreatePostForm(k).subtitle
                   /\ new.body = CreatePostForm(k).body
                   /\ new.img_url = CreatePostForm(k).img_url
                   /\ new.author_id = session[c]
                   /\ new.date = old.date
                   /\ blog_posts' \ {new} = blog_posts \ {old}
                   /\ comments' = comments
                   /\ users' = users]_vars

\* C10 witness: an edit has been answered with the redirect, and a stored
\* post that has a comment carries a date earlier than today and an author
\* other than the first user.
C10_Witness ==
    /\ response.endpoint = "edit_post"
    /\ response.status = 302
    /\ \E p \in blog_posts, cm \in comments :
          /\ cm.post_id = p.id
          /\ p.date # strftime(today)
          /\ p.author_id # 1

====
